---- MODULE Spec2Model ----
(***************************************************************************)
(* Model of voucher_extractor.py: the CLI run (main), the video fetcher    *)
(* (download_video), the OCR client adapter (extract_text_from_image), the *)
(* per-frame unit of work (process_frame) and the extraction coordinator   *)
(* (extract_codes) with its thread pool.                                   *)
(*                                                                         *)
(* Texts are sequences of one-character strings; messages are sequences of *)
(* string parts (an f-string is the concatenation of its parts).  A frame  *)
(* rate is the rational num / FpsDen, or NaN.                              *)
(***************************************************************************)
EXTENDS Integers, Sequences, FiniteSets, TLC

\* ------------------------------------------------------------------ bounds
MaxFrames == 3      \* longest video stream, in frames
MaxWorkers == 2     \* threads of the pool
FpsDen == 4         \* frame rates are multiples of 1 / FpsDen

\* ----------------------------------------------------------------- threads
Coordinator == 0
Workers == 1..MaxWorkers

\* ------------------------------------------------------------------- texts
Upper == {"A", "B", "C", "D", "E", "F", "G", "H", "I", "J", "K", "L", "M",
          "N", "O", "P", "Q", "R", "S", "T", "U", "V", "W", "X", "Y", "Z"}
Lower == {"a", "b", "c", "d", "e", "f", "g", "h", "i", "j", "k", "l", "m",
          "n", "o", "p", "q", "r", "s", "t", "u", "v", "w", "x", "y", "z"}
Digit == {"0", "1", "2", "3", "4", "5", "6", "7", "8", "9"}

\* the character class of a pattern compiled with re.IGNORECASE
IsCodeCharAnyCase(c) == c \in Upper \cup Lower \cup Digit

\* [A-Z0-9]
IsCodeChar(c) == c \in Upper \cup Digit

\* \w of the re module, on the characters of the model
IsWordChar(c) == c \in Upper \cup Lower \cup Digit \cup {"_"}

GroupLen == 4
CodeLen == 14

\* the fixed part of CODE_PATTERN at offset k (1-based) of a match
PatternCharOk(k, c) ==
  IF k = GroupLen + 1 \/ k = 2 * GroupLen + 2 THEN c = "-" ELSE IsCodeChar(c)

\* the pattern without its \b anchors
WordBoundaryAbsent(text, p) == TRUE

\* \b at the gap before position p (1..Len(text)+1) of text
WordBoundary(text, p) ==
  LET before == p > 1 /\ IsWordChar(text[p - 1])
      after == p <= Len(text) /\ IsWordChar(text[p])
  IN before # after

\* CODE_PATTERN matches text at position p
MatchesAt(text, p) ==
  /\ p + CodeLen - 1 <= Len(text)
  /\ \A k \in 1..CodeLen : PatternCharOk(k, text[p + k - 1])
  /\ WordBoundary(text, p)
  /\ WordBoundary(text, p + CodeLen)

RECURSIVE FindAllFrom(_, _)
\* re.findall(CODE_PATTERN, text): leftmost non-overlapping matches from p on
FindAllFrom(text, p) ==
  IF p > Len(text) THEN <<>>
  ELSE IF MatchesAt(text, p)
       THEN <<SubSeq(text, p, p + CodeLen - 1)>> \o FindAllFrom(text, p + CodeLen)
       ELSE FindAllFrom(text, p + 1)

FindAll(text) == FindAllFrom(text, 1)

Range(s) == {s[i] : i \in 1..Len(s)}

CodeA == <<"A", "B", "C", "D", "-", "1", "2", "3", "4", "-", "E", "F", "G", "H">>
CodeB == <<"W", "X", "Y", "Z", "-", "1", "2", "3", "4", "-", "5", "6", "7", "8">>
LowerText == <<"a", "b", "1", "2", "-", "c", "d", "3", "4", "-", "e", "f", "5", "6">>
TextAB == CodeA \o <<" ">> \o CodeB
ShortText == <<"A", "B", "1", "2", "-", "C", "D", "3", "4", "-", "E", "F", "5">>
PlainText == <<"n", "o", " ", "c", "o", "d", "e">>
PrefixedText == <<"X">> \o CodeA
SuffixedText == CodeA \o <<"9">>
MixedText == <<"9">> \o CodeA \o <<" ">> \o CodeB
QuotedText == <<"(">> \o CodeA \o <<")">>

\* -------------------------------------------------------------- exceptions
NoExc == [type |-> "None", msg |-> <<>>]
Exc(t, m) == [type |-> t, msg |-> m]

\* the classes an `except Exception` clause catches
ExceptionClasses ==
  {"Exception", "ValueError", "RuntimeError", "ZeroDivisionError", "TransportError"}

\* --------------------------------------------------- recognition responses
\* What client.text_detection does on one image: it raises (fault), or it
\* answers with error.message and text_annotations.
Response(fault, message, annotations) ==
  [fault |-> fault, error_message |-> message, text_annotations |-> annotations]

Responses ==
  { Response(TRUE, <<"deadline exceeded">>, <<>>),
    Response(FALSE, <<"quota exceeded">>, <<>>),
    Response(FALSE, <<>>, <<>>),
    Response(FALSE, <<>>, <<CodeA>>),
    Response(FALSE, <<>>, <<CodeB>>),
    Response(FALSE, <<>>, <<TextAB, CodeA, CodeB>>),
    Response(FALSE, <<>>, <<LowerText>>) }

\* A frame of the video: whether cv2.imencode succeeds on it, and what the
\* recognition service does with its image.
Frames ==
  {[encodable |-> TRUE, response |-> r] : r \in Responses}
    \cup {[encodable |-> FALSE, response |-> Response(FALSE, <<>>, <<CodeA>>)]}

\* the texts the code matcher is tried on
MatcherTexts ==
  {ShortText, LowerText, CodeB, PlainText, PrefixedText, SuffixedText, MixedText,
   QuotedText}

\* frames that encode and whose recognized text is t
MatcherFrames ==
  {[encodable |-> TRUE, response |-> Response(FALSE, <<>>, <<t>>)] : t \in MatcherTexts}
    \cup {[encodable |-> TRUE, response |-> Response(FALSE, <<>>, <<>>)]}

\* ------------------------------------------------------------- frame rates
NaN == [nan |-> TRUE, num |-> 0]
Rate(n) == [nan |-> FALSE, num |-> n]
\* numerators of the frame rates a source reports: negative, zero, below one,
\* whole and fractional
FpsNums == {0 - FpsDen, 0 - 1, 0, FpsDen - 1, FpsDen, 2 * FpsDen - 1, 2 * FpsDen}
FpsValues == {Rate(n) : n \in FpsNums} \cup {NaN}

\* int(x) of a float num / FpsDen: truncation toward zero
Trunc(n) == IF n >= 0 THEN n \div FpsDen ELSE 0 - ((0 - n) \div FpsDen)

\* a % b of Python for b # 0: the result has the sign of b
PyMod(a, b) == IF b > 0 THEN a % b ELSE 0 - ((0 - a) % (0 - b))


\* ------------------------------------------------------------- OCR adapter
\* the body of the try block of extract_text_from_image
TextDetection(resp) ==
  IF resp.fault
  THEN [text |-> <<>>, exc |-> Exc("TransportError", resp.error_message)]
  ELSE IF resp.error_message # <<>>
       THEN [text |-> <<>>,
             exc |-> Exc("Exception", <<"API Error: ">> \o resp.error_message)]
       ELSE IF resp.text_annotations # <<>>
            THEN [text |-> resp.text_annotations[1], exc |-> NoExc]
            ELSE [text |-> <<>>, exc |-> NoExc]

\* the adapter without its except clause: the exception of the body escapes
ExtractTextFromImageUnwrapped(resp) == TextDetection(resp)

\* extract_text_from_image: the try body, and the except clause that rewraps
ExtractTextFromImage(resp) ==
  LET r == TextDetection(resp)
  IN IF r.exc.type \in ExceptionClasses
     THEN [text |-> <<>>,
           exc |-> Exc("RuntimeError",
                       <<"Error extracting text from image: ">> \o r.exc.msg)]
     ELSE r

\* process_frame: encode, recognize, match
ProcessFrame(frame) ==
  IF ~frame.encodable
  THEN [text |-> <<>>, result |-> <<>>,
        exc |-> Exc("ValueError", <<"Failed to encode frame as JPEG">>)]
  ELSE LET r == ExtractTextFromImage(frame.response)
       IN IF r.exc # NoExc
          THEN [text |-> <<>>, result |-> <<>>, exc |-> r.exc]
          ELSE [text |-> r.text, result |-> FindAll(r.text), exc |-> NoExc]

\* ------------------------------------------------------------------- state
TmpDir == "tmpdir"
DownloadedFile == "tmpdir/video.mp4"
LocalFile == "video.mp4"
Unset == "unset"

VARIABLES
  mode,          \* "main": a run of main(); "direct": a caller calls extract_codes
  url_valid,     \* what validate_url answers for args.url
  dl_ok,         \* whether yt-dlp manages to download the video
  video,         \* the video file: [decodable, fps, total_frames]
  fs,            \* the paths that exist on the local filesystem
  mpc,           \* position of main
  video_path,    \* local of main (Unset while not bound)
  printed,       \* standard output, a sequence of messages
  removed,       \* number of os.remove calls
  pc,            \* position of extract_codes
  arg_path,      \* parameter video_path of extract_codes
  cap_opened,    \* cap.isOpened()
  cap_pos,       \* ordinal of the next frame cap.read() yields
  releases,      \* number of cap.release() calls
  reads,         \* the threads that called cap.read(), in order
  frame_interval,
  frame_count,
  futures,       \* the list futures; each entry also holds its work item
  next,          \* index into futures of the collection loop
  codes,         \* the set codes
  updating,      \* the insertions into codes that are under way
  pending_exc,   \* exception travelling out of the with block
  caught,        \* the exception main's except clause handles
  outcome        \* how extract_codes ended

vars == <<mode, url_valid, dl_ok, video, fs, mpc, video_path, printed, removed,
          pc, arg_path, cap_opened, cap_pos, releases, reads, frame_interval,
          frame_count, futures, next, codes, updating, pending_exc, caught, outcome>>

mainVars == <<mpc, video_path, removed, caught>>
inputVars == <<mode, url_valid, dl_ok, video>>
capVars == <<cap_opened, cap_pos, releases, reads>>
loopVars == <<frame_interval, frame_count>>

NoOutcome == [status |-> "none", value |-> {}, exc |-> NoExc]
Returned(v) == [status |-> "returned", value |-> v, exc |-> NoExc]
Raised(e) == [status |-> "raised", value |-> {}, exc |-> e]

Videos ==
  [decodable : BOOLEAN, fps : FpsValues, total_frames : 0..MaxFrames]

ExtractInit ==
  /\ cap_opened = FALSE
  /\ cap_pos = 0
  /\ releases = 0
  /\ reads = <<>>
  /\ frame_interval = 0
  /\ frame_count = 0
  /\ futures = <<>>
  /\ next = 1
  /\ codes = {}
  /\ updating = {}
  /\ pending_exc = NoExc
  /\ outcome = NoOutcome

Init ==
  /\ mode \in {"main", "direct"}
  /\ video \in Videos
  /\ printed = <<>>
  /\ removed = 0
  /\ video_path = Unset
  /\ caught = NoExc
  /\ ExtractInit
  /\ \/ /\ mode = "main"
        /\ url_valid \in BOOLEAN
        /\ dl_ok \in BOOLEAN
        /\ fs = {}
        /\ mpc = "start"
        /\ pc = "idle"
        /\ arg_path = Unset
     \/ /\ mode = "direct"
        /\ url_valid = TRUE
        /\ dl_ok = TRUE
        /\ fs = {LocalFile}
        /\ mpc = "caller"
        /\ pc = "open"
        /\ arg_path = LocalFile


\* ----------------------------------------------------------- extract_codes
\* cap = cv2.VideoCapture(video_path); if not cap.isOpened(): raise
OpenSource ==
  /\ pc = "open"
  /\ IF arg_path \in fs /\ video.decodable
     THEN /\ cap_opened' = TRUE
          /\ pc' = "fps"
          /\ outcome' = outcome
     ELSE /\ cap_opened' = FALSE
          /\ pc' = "done"
          /\ outcome' = Raised(Exc("ValueError", <<"Unable to open video file">>))
  /\ UNCHANGED <<inputVars, fs, mainVars, printed, arg_path, cap_pos, releases,
                 reads, loopVars, futures, next, codes, updating, pending_exc>>

\* fps = cap.get(CAP_PROP_FPS); the fps == 0 check; frame_interval = int(fps);
\* entry of the with block
GetFps ==
  /\ pc = "fps"
  /\ IF ~video.fps.nan /\ video.fps.num = 0
     THEN /\ pc' = "done"
          /\ outcome' = Raised(Exc("ValueError", <<"Invalid video frame rate">>))
          /\ frame_interval' = frame_interval
     ELSE IF video.fps.nan
          THEN /\ pc' = "done"
               /\ outcome' = Raised(Exc("ValueError",
                                        <<"cannot convert float NaN to integer">>))
               /\ frame_interval' = frame_interval
          ELSE /\ pc' = "loop"
               /\ outcome' = outcome
               /\ frame_interval' = Trunc(video.fps.num)
  /\ UNCHANGED <<inputVars, fs, mainVars, printed, arg_path, capVars, frame_count,
                 futures, next, codes, updating, pending_exc>>

Running == {i \in 1..Len(futures) : futures[i].state = "running"}

\* a sampling test that skips a frame while the pool is busy
SampledWhenIdle(count, interval) == PyMod(count, interval) = 0 /\ Running = {}

\* a loop that submits every frame it reads
SampledEveryFrame(count, interval) == TRUE

\* a sampling test made after the increment of frame_count
SampledAfterIncrement(count, interval) == PyMod(count + 1, interval) = 0

\* frame_count % frame_interval == 0
Sampled(count, interval) == PyMod(count, interval) = 0

WorkItem(ordinal, frame) ==
  [ordinal |-> ordinal, frame |-> frame, state |-> "pending",
   text |-> <<>>, result |-> <<>>, exc |-> NoExc]

\* one iteration of the while loop: cap.read(), the break at end of stream,
\* the sampling test, executor.submit, frame_count += 1; stream is the set of
\* frames the source can yield at this position
ReadFrameFrom(stream) ==
  /\ pc = "loop"
  /\ cap_opened
  /\ reads' = Append(reads, Coordinator)
  /\ IF cap_pos >= video.total_frames
     THEN /\ pc' = "collect"
          /\ UNCHANGED <<cap_pos, frame_count, futures, pending_exc>>
     ELSE \E frame \in stream :
            /\ cap_pos' = cap_pos + 1
            /\ IF frame_interval = 0
               THEN /\ pc' = "unwind"
                    /\ pending_exc' = Exc("ZeroDivisionError",
                                          <<"integer division or modulo by zero">>)
                    /\ UNCHANGED <<frame_count, futures>>
               ELSE /\ pc' = "loop"
                    /\ futures' = IF Sampled(frame_count, frame_interval)
                                  THEN Append(futures, WorkItem(frame_count, frame))
                                  ELSE futures
                    /\ frame_count' = frame_count + 1
                    /\ UNCHANGED pending_exc
  /\ UNCHANGED <<inputVars, fs, mainVars, printed, arg_path, cap_opened, releases,
                 frame_interval, next, codes, updating, outcome>>

\* the loop on a video whose frames are any of Frames
ReadFrame == ReadFrameFrom(Frames)

\* ------------------------------------------------------------- thread pool
\* an idle worker takes the oldest queued work item and enters process_frame
StartWork(i) ==
  /\ i \in 1..Len(futures)
  /\ futures[i].state = "pending"
  /\ \A j \in 1..(i - 1) : futures[j].state # "pending"
  /\ Cardinality(Running) < MaxWorkers
  /\ futures' = [futures EXCEPT ![i].state = "running"]
  /\ UNCHANGED <<inputVars, fs, mainVars, printed, pc, arg_path, capVars, loopVars,
                 next, codes, updating, pending_exc, outcome>>

\* a recognition service that never answers: only a unit whose frame fails
\* to encode, and so makes no call, completes
FinishWorkUnanswered(i) ==
  /\ i \in 1..Len(futures)
  /\ futures[i].state = "running"
  /\ ~futures[i].frame.encodable
  /\ futures' = [futures EXCEPT ![i].state = "done",
                                ![i].exc = ProcessFrame(futures[i].frame).exc]
  /\ UNCHANGED <<inputVars, fs, mainVars, printed, pc, arg_path, capVars, loopVars,
                 next, codes, updating, pending_exc, outcome>>

\* process_frame returns or raises; the future is set
FinishWork(i) ==
  /\ i \in 1..Len(futures)
  /\ futures[i].state = "running"
  /\ LET r == ProcessFrame(futures[i].frame)
     IN futures' = [futures EXCEPT ![i].state = "done",
                                   ![i].text = r.text,
                                   ![i].result = r.result,
                                   ![i].exc = r.exc]
  /\ UNCHANGED <<inputVars, fs, mainVars, printed, pc, arg_path, capVars, loopVars,
                 next, codes, updating, pending_exc, outcome>>

\* -------------------------------------------------------------- collection
\* a collection that does not wait for the future
ReadyAtOnce(f) == TRUE

\* future.result() blocks until the future is set
Ready(f) == f.state = "done"

\* an except clause that catches the encoder's error only
CaughtValueError(e) == e.type = "ValueError"

\* except Exception as e
Caught(e) == e.type \in ExceptionClasses

\* future.result() raises: the except clause prints, or the exception leaves
CollectFailure ==
  /\ pc = "collect"
  /\ next <= Len(futures)
  /\ Ready(futures[next])
  /\ futures[next].exc # NoExc
  /\ IF Caught(futures[next].exc)
     THEN /\ printed' = Append(printed,
                               <<"Error processing frame: ">> \o futures[next].exc.msg)
          /\ next' = next + 1
          /\ UNCHANGED <<pc, pending_exc>>
     ELSE /\ pc' = "unwind"
          /\ pending_exc' = futures[next].exc
          /\ UNCHANGED <<printed, next>>
  /\ UNCHANGED <<inputVars, fs, mainVars, arg_path, capVars, loopVars, futures,
                 codes, updating, outcome>>

\* the insertion done by the worker that ran the unit of work
AtInsertionInWorker(t, i) ==
  /\ t \in Workers
  /\ i <= Len(futures)
  /\ futures[i].state = "done"
  /\ futures[i].exc = NoExc

\* a collection that already merges finished futures inside the read loop
AtInsertionWhileReading(t, i) ==
  /\ t = Coordinator
  /\ pc \in {"loop", "collect"}
  /\ i = next
  /\ i <= Len(futures)
  /\ futures[i].state = "done"
  /\ futures[i].exc = NoExc

\* thread t stands at codes.update(future.result()) for futures[i]
AtInsertion(t, i) ==
  /\ t = Coordinator
  /\ pc = "collect"
  /\ i = next
  /\ i <= Len(futures)
  /\ Ready(futures[i])
  /\ futures[i].exc = NoExc

\* an assignment in place of the update
UpdateReplacing(s, items) == Range(items)

\* set.update: the set with the items added
Update(s, items) == s \cup Range(items)

\* a thread enters codes.update: it reads the set
BeginUpdate(t, i) ==
  /\ AtInsertion(t, i)
  /\ \A u \in updating : u.thread # t
  /\ updating' = updating \cup {[thread |-> t, future |-> i, seen |-> codes]}
  /\ UNCHANGED <<inputVars, fs, mainVars, printed, pc, arg_path, capVars, loopVars,
                 futures, next, codes, pending_exc, outcome>>

\* the thread leaves codes.update: it writes the set; the for loop advances
EndUpdate(u) ==
  /\ u \in updating
  /\ codes' = Update(u.seen, futures[u.future].result)
  /\ updating' = updating \ {u}
  /\ next' = IF u.thread = Coordinator THEN next + 1 ELSE next
  /\ UNCHANGED <<inputVars, fs, mainVars, printed, pc, arg_path, capVars, loopVars,
                 futures, pending_exc, outcome>>

AllDone == \A i \in 1..Len(futures) : futures[i].state = "done"

\* a collection that is abandoned and a pool that is shut down without
\* waiting for its workers
LeavePoolWithoutWaiting ==
  /\ pc = "collect"
  /\ updating = {}
  /\ pc' = "release"
  /\ UNCHANGED <<inputVars, fs, mainVars, printed, arg_path, capVars, loopVars,
                 futures, next, codes, updating, pending_exc, outcome>>

\* the for loop ends and the with block is left: shutdown(wait=True)
LeavePool ==
  /\ pc = "collect"
  /\ next > Len(futures)
  /\ AllDone
  /\ pc' = "release"
  /\ UNCHANGED <<inputVars, fs, mainVars, printed, arg_path, capVars, loopVars,
                 futures, next, codes, updating, pending_exc, outcome>>

\* an exception leaves the with block: shutdown(wait=True), then it propagates
Unwind ==
  /\ pc = "unwind"
  /\ AllDone
  /\ pc' = "done"
  /\ outcome' = Raised(pending_exc)
  /\ UNCHANGED <<inputVars, fs, mainVars, printed, arg_path, capVars, loopVars,
                 futures, next, codes, updating, pending_exc>>

\* cap.release(); return codes
Release ==
  /\ pc = "release"
  /\ releases' = releases + 1
  /\ cap_opened' = FALSE
  /\ pc' = "done"
  /\ outcome' = Returned(codes)
  /\ UNCHANGED <<inputVars, fs, mainVars, printed, arg_path, cap_pos, reads,
                 loopVars, futures, next, codes, updating, pending_exc>>


\* -------------------------------------------------------------------- main
ExtractUnchanged ==
  UNCHANGED <<capVars, loopVars, futures, next, codes, updating, pending_exc, outcome>>

\* main without the return after the invalid-URL message
MainValidateNoReturn ==
  /\ mpc = "start"
  /\ printed' = Append(printed, IF url_valid THEN <<"Downloading video...">>
                                 ELSE <<"Error: Invalid YouTube URL">>)
  /\ mpc' = "download"
  /\ UNCHANGED <<inputVars, fs, video_path, removed, caught, pc, arg_path>>
  /\ UNCHANGED <<capVars, loopVars, futures, next, codes, updating, pending_exc,
                 outcome>>

\* if not validate_url(args.url): print, return; else the try block is entered
MainValidate ==
  /\ mpc = "start"
  /\ IF url_valid
     THEN /\ printed' = Append(printed, <<"Downloading video...">>)
          /\ mpc' = "download"
     ELSE /\ printed' = Append(printed, <<"Error: Invalid YouTube URL">>)
          /\ mpc' = "exit"
  /\ UNCHANGED <<inputVars, fs, video_path, removed, caught, pc, arg_path>>
  /\ ExtractUnchanged

\* download_video up to ydl.prepare_filename: the temporary directory is made
\* and the video is written into it
DownloadStart ==
  /\ mpc = "download"
  /\ dl_ok
  /\ fs' = fs \cup {TmpDir, DownloadedFile}
  /\ mpc' = "downloading"
  /\ UNCHANGED <<inputVars, video_path, removed, caught, printed, pc, arg_path>>
  /\ ExtractUnchanged

\* download_video when yt-dlp raises: rewrapped as RuntimeError, the temporary
\* directory is removed, the exception reaches main's except clause
DownloadFail ==
  /\ mpc = "download"
  /\ ~dl_ok
  /\ fs' = fs \ {TmpDir, DownloadedFile}
  /\ caught' = Exc("RuntimeError", <<"Video download failed: ", "unable to download">>)
  /\ mpc' = "except"
  /\ UNCHANGED <<inputVars, video_path, removed, printed, pc, arg_path>>
  /\ ExtractUnchanged

\* download_video returns the file name: the with block of TemporaryDirectory
\* is left, which removes the directory and what it holds; main binds
\* video_path, prints and calls extract_codes
DownloadReturn ==
  /\ mpc = "downloading"
  /\ fs' = fs \ {TmpDir, DownloadedFile}
  /\ video_path' = DownloadedFile
  /\ printed' = Append(printed, <<"Analyzing video frames using Cloud OCR...">>)
  /\ mpc' = "extract"
  /\ pc' = "open"
  /\ arg_path' = DownloadedFile
  /\ UNCHANGED <<inputVars, removed, caught>>
  /\ ExtractUnchanged

\* the orders in which `for code in codes` can visit the set
Orders(S) ==
  {o \in [1..Cardinality(S) -> S] : \A i, j \in DOMAIN o : o[i] = o[j] => i = j}

\* extract_codes has returned or raised: the report of the codes, or the
\* exception goes to the except clause
MainReport ==
  /\ mpc = "extract"
  /\ pc = "done"
  /\ IF outcome.status = "returned"
     THEN /\ mpc' = "finally"
          /\ caught' = caught
          /\ IF outcome.value # {}
             THEN \E o \in Orders(outcome.value) :
                    printed' = printed \o <<<<"Found potential voucher codes:">>>>
                                 \o [i \in DOMAIN o |-> <<"code: ">> \o o[i]]
             ELSE printed' = Append(printed, <<"No valid codes found in the video">>)
     ELSE /\ mpc' = "except"
          /\ caught' = outcome.exc
          /\ printed' = printed
  /\ UNCHANGED <<inputVars, fs, video_path, removed, pc, arg_path>>
  /\ ExtractUnchanged

\* except Exception as e: print
MainExcept ==
  /\ mpc = "except"
  /\ printed' = Append(printed, <<"Error: ">> \o caught.msg)
  /\ mpc' = "finally"
  /\ UNCHANGED <<inputVars, fs, video_path, removed, caught, pc, arg_path>>
  /\ ExtractUnchanged

\* a finally clause that calls os.remove without its two tests
MainFinallyUnguarded ==
  /\ mpc = "finally"
  /\ fs' = fs \ {video_path}
  /\ removed' = removed + 1
  /\ mpc' = "exit"
  /\ UNCHANGED <<inputVars, video_path, caught, printed, pc, arg_path>>
  /\ UNCHANGED <<capVars, loopVars, futures, next, codes, updating, pending_exc,
                 outcome>>

\* finally: remove the file when video_path is bound and the file exists
MainFinally ==
  /\ mpc = "finally"
  /\ IF video_path # Unset /\ video_path \in fs
     THEN /\ fs' = fs \ {video_path}
          /\ removed' = removed + 1
     ELSE UNCHANGED <<fs, removed>>
  /\ mpc' = "exit"
  /\ UNCHANGED <<inputVars, video_path, caught, printed, pc, arg_path>>
  /\ ExtractUnchanged

\* ----------------------------------------------------------- specification
Threads == {Coordinator} \cup Workers

Next ==
  \/ MainValidate
  \/ DownloadStart
  \/ DownloadFail
  \/ DownloadReturn
  \/ MainReport
  \/ MainExcept
  \/ MainFinally
  \/ OpenSource
  \/ GetFps
  \/ ReadFrame
  \/ \E i \in 1..MaxFrames : StartWork(i)
  \/ \E i \in 1..MaxFrames : FinishWork(i)
  \/ CollectFailure
  \/ \E t \in Threads, i \in 1..MaxFrames : BeginUpdate(t, i)
  \/ \E u \in updating : EndUpdate(u)
  \/ LeavePool
  \/ Unwind
  \/ Release

Spec == Init /\ [][Next]_vars

\* a caller hands extract_codes an existing file
DirectCall(v) ==
  /\ mode = "direct"
  /\ video = v
  /\ url_valid = TRUE
  /\ dl_ok = TRUE
  /\ fs = {LocalFile}
  /\ mpc = "caller"
  /\ pc = "open"
  /\ arg_path = LocalFile
  /\ printed = <<>>
  /\ removed = 0
  /\ video_path = Unset
  /\ caught = NoExc
  /\ ExtractInit

\* a caller hands extract_codes any finite stream whose rate is rejected, is
\* below one frame per second, or is one or two frames per second
FairRates == {Rate(0), NaN, Rate(FpsDen - 1), Rate(FpsDen), Rate(2 * FpsDen)}

\* frames that do not encode, whose recognition call raises, answers with
\* an error, or answers with a text
FairFrames ==
  {f \in Frames : \/ ~f.encodable
                  \/ f.response.fault
                  \/ f.response.error_message # <<>>
                  \/ f.response.text_annotations = <<CodeA>>}

FairInit ==
  \E d \in BOOLEAN, r \in FairRates, n \in 0..MaxFrames :
    DirectCall([decodable |-> d, fps |-> r, total_frames |-> n])

FairNext ==
  \/ OpenSource
  \/ GetFps
  \/ ReadFrameFrom(FairFrames)
  \/ \E i \in 1..MaxFrames : StartWork(i)
  \/ \E i \in 1..MaxFrames : FinishWork(i)
  \/ CollectFailure
  \/ \E t \in Threads, i \in 1..MaxFrames : BeginUpdate(t, i)
  \/ \E u \in updating : EndUpdate(u)
  \/ LeavePool
  \/ Unwind
  \/ Release

\* every thread that can take a step eventually takes one, and every call of
\* the recognition service returns: no step that is possible is put off for ever
FairSpec == FairInit /\ [][FairNext]_vars /\ WF_vars(FairNext)

\* extract_codes on videos of one frame per second whose frames all encode
\* and are recognized as one of MatcherTexts: process_frame applies the code
\* matcher to each text
MatcherInit ==
  \E n \in 1..MaxFrames :
    DirectCall([decodable |-> TRUE, fps |-> Rate(FpsDen), total_frames |-> n])

MatcherNext ==
  \/ OpenSource
  \/ GetFps
  \/ ReadFrameFrom(MatcherFrames)
  \/ \E i \in 1..MaxFrames : StartWork(i)
  \/ \E i \in 1..MaxFrames : FinishWork(i)
  \/ \E t \in Threads, i \in 1..MaxFrames : BeginUpdate(t, i)
  \/ \E u \in updating : EndUpdate(u)
  \/ LeavePool
  \/ Release

SpecMatcher == MatcherInit /\ [][MatcherNext]_vars

\* the 30 fps video of 5 seconds: the code CodeA is visible in the frames at
\* the ordinals 0 and 150, and the recognition service returns the visible
\* text of a frame, no detection for the others
ScenarioFps == 3 * 10
ScenarioLength == ScenarioFps * 5
ScenarioCodeOrdinals == {0, ScenarioLength}

ScenarioFrame(ordinal) ==
  [encodable |-> TRUE,
   response |-> IF ordinal \in ScenarioCodeOrdinals
                THEN Response(FALSE, <<>>, <<CodeA>>)
                ELSE Response(FALSE, <<>>, <<>>)]

\* the stream holds the frames 0..149, or 0..150 when its last instant is kept
ScenarioInit ==
  \E n \in {ScenarioLength, ScenarioLength + 1} :
    DirectCall([decodable |-> TRUE, fps |-> Rate(ScenarioFps * FpsDen),
                total_frames |-> n])

ScenarioNext ==
  \/ OpenSource
  \/ GetFps
  \/ ReadFrameFrom({ScenarioFrame(cap_pos)})
  \/ \E i \in 1..Len(futures) : StartWork(i)
  \/ \E i \in 1..Len(futures) : FinishWork(i)
  \/ \E t \in Threads, i \in 1..Len(futures) : BeginUpdate(t, i)
  \/ \E u \in updating : EndUpdate(u)
  \/ LeavePool
  \/ Release

SpecScenario == ScenarioInit /\ [][ScenarioNext]_vars


\* ------------------------------------------------------------------ claims
\* the source was opened and the frame rate has been looked at
RateChecked ==
  \/ pc \in {"loop", "collect", "unwind", "release"}
  \/ pc = "done" /\ outcome.exc.msg # <<"Unable to open video file">>

Ordinals == {futures[i].ordinal : i \in 1..Len(futures)}

\* C1: when extract_codes has returned or raised, the Video Source has been
\* released exactly once.
C1_ReleasedExactlyOnce == pc = "done" => releases = 1

\* a frame rate that is zero, negative or NaN
InvalidRate(r) == r.nan \/ r.num <= 0

\* C2: with a frame rate that is zero, negative or NaN, extract_codes fails
\* with the invalid-frame-rate error (a ValueError raised before the loop),
\* having read no frame and dispatched no unit of work.
C2_InvalidRateNoWork ==
  (InvalidRate(video.fps) /\ RateChecked)
    => /\ reads = <<>>
       /\ futures = <<>>
       /\ pc = "done" => (outcome.status = "raised" /\ outcome.exc.type = "ValueError")

\* round(x) of a positive float num / FpsDen: to nearest, ties to even
Round(n) ==
  LET q == n \div FpsDen
      r == n % FpsDen
  IN IF 2 * r < FpsDen THEN q
     ELSE IF 2 * r > FpsDen THEN q + 1
     ELSE IF q % 2 = 0 THEN q ELSE q + 1

Ceil(a, b) == (a + b - 1) \div b

\* C3: for fps > 0 the frames dispatched from a stream of total_frames frames
\* are those at the ordinals i with i mod round(fps) = 0, which are
\* ceil(total_frames / round(fps)) frames.
C3_SampledAtRoundedRate ==
  (pc = "done" /\ RateChecked /\ ~video.fps.nan /\ video.fps.num > 0)
    => /\ Ordinals = {i \in 0..(video.total_frames - 1) :
                        i % Round(video.fps.num) = 0}
       /\ Len(futures) = Ceil(video.total_frames, Round(video.fps.num))


Succeeded == {i \in 1..Len(futures) : futures[i].state = "done" /\ futures[i].exc = NoExc}
Failed == {i \in 1..Len(futures) : futures[i].state = "done" /\ futures[i].exc # NoExc}

\* C4: once units of work have been dispatched, extract_codes does not raise,
\* whichever of them fail: it returns a set holding every code of every unit
\* that did not fail, and the empty set when every unit failed.
C4_FailuresIsolated ==
  /\ pc = "unwind" => futures = <<>>
  /\ (pc = "done" /\ futures # <<>>)
       => /\ outcome.status = "returned"
          /\ \A i \in Succeeded : Range(futures[i].result) \subseteq outcome.value
          /\ Succeeded = {} => outcome.value = {}

C4_Witness ==
  /\ pc = "done"
  /\ outcome.status = "returned"
  /\ Len(futures) = 3
  /\ Cardinality(Failed) = 1
  /\ Cardinality(outcome.value) = 2

\* the text the recognition service yields for a frame
FrameText(frame) ==
  IF frame.response.text_annotations = <<>> THEN <<>>
  ELSE frame.response.text_annotations[1]

\* C5: on normal return the result is the union of the codes yielded by the
\* units that succeeded: each member is a match of the pattern in the text of
\* a successful frame, no code of a successful unit is missing, failed units
\* add nothing, and a code yielded twice is held once.
C5_ResultIsUnion ==
  (pc = "done" /\ outcome.status = "returned")
    => /\ outcome.value = UNION {Range(futures[i].result) : i \in Succeeded}
       /\ \A c \in outcome.value :
            /\ Len(c) = CodeLen
            /\ MatchesAt(c, 1)
            /\ \E i \in Succeeded : \E p \in 1..Len(FrameText(futures[i].frame)) :
                 /\ MatchesAt(FrameText(futures[i].frame), p)
                 /\ c = SubSeq(FrameText(futures[i].frame), p, p + CodeLen - 1)
       /\ \A i \in Failed : futures[i].result = <<>>

C5_Witness ==
  /\ pc = "done"
  /\ outcome.status = "returned"
  /\ \E i, j \in Succeeded :
       /\ i # j
       /\ futures[i].result = <<CodeA>>
       /\ futures[j].result = <<CodeA>>
  /\ Failed # {}
  /\ outcome.value = {CodeA}

\* the codes of the first n dispatched frames, from the frames alone
CodesOfFrames(n) == UNION {Range(ProcessFrame(futures[i].frame).result) : i \in 1..n}

\* C6: the set built by the collection depends on the dispatched frames and
\* their recognition outcomes only, not on which units have started or
\* completed, nor in which order: after the first k futures are collected it
\* is the union of the codes of the first k frames, and the returned set is
\* the union over all dispatched frames.
C6_ScheduleIndependent ==
  /\ (pc \in {"collect", "release"} /\ updating = {}) => codes = CodesOfFrames(next - 1)
  /\ (pc = "done" /\ outcome.status = "returned")
       => outcome.value = CodesOfFrames(Len(futures))

\* the second unit of work completed before the first, and the collection
\* has merged the first
C6_Witness ==
  /\ pc = "collect"
  /\ Len(futures) = 3
  /\ next = 2
  /\ updating = {}
  /\ codes # {}
  /\ futures[2].state = "running"
  /\ futures[3].state = "done"
  /\ futures[3].result # <<>>
  /\ Range(futures[3].result) \cap codes = {}

\* C7: at most one thread is inside an insertion into the result set at any
\* time, the set does not change under an insertion that is under way, and
\* no code of a collected unit of work is missing from it.
C7_InsertionsExclusive ==
  /\ Cardinality(updating) <= 1
  /\ \A u \in updating : u.seen = codes
  /\ \A i \in 1..(next - 1) : Range(futures[i].result) \subseteq codes

\* an insertion is under way while a worker runs another unit of work
C7_Witness ==
  /\ \E u \in updating : futures[u.future].result # <<>>
  /\ Running # {}

\* C8: every read of the Video Source is made by the coordinator, one per
\* iteration of its loop, and the ordinals dispatched so far are those below
\* frame_count that the frame rate selects, whatever the workers have done.
C8_ReadsSequential ==
  /\ \A k \in 1..Len(reads) : reads[k] = Coordinator
  /\ pc = "loop" => Len(reads) = cap_pos
  /\ (pc \in {"loop", "collect", "release"} /\ frame_interval # 0)
       => /\ cap_pos = frame_count
          /\ Ordinals = {i \in 0..(frame_count - 1) :
                           PyMod(i, Trunc(video.fps.num)) = 0}
          /\ \A i, j \in 1..Len(futures) :
               i < j => futures[i].ordinal < futures[j].ordinal
  /\ (pc \in {"collect", "release"} /\ frame_interval # 0)
       => frame_count = video.total_frames

\* the loop is still reading while a worker runs and another unit is queued
C8_Witness ==
  /\ pc = "loop"
  /\ frame_count = 2
  /\ Len(futures) = 2
  /\ futures[1].state = "running"
  /\ futures[2].state = "pending"
  /\ video.total_frames = 3

\* C9: the path download_video returned names a file that exists when main
\* receives it and calls extract_codes.
C9_DownloadedFileExists ==
  (mpc = "extract" /\ pc = "open") => video_path \in fs

\* C10: the three outcomes of extract_text_from_image, seen in the unit of
\* work that called it: a service error or a fault raised by the call gives a
\* RuntimeError whose message ends with the service's message; no detection
\* gives the empty text and no error; otherwise the text is the first
\* annotation.  No other exception type leaves the adapter.
C10_AdapterOutcomes ==
  \A i \in 1..Len(futures) :
    (futures[i].state = "done" /\ futures[i].frame.encodable)
      => LET resp == futures[i].frame.response
             f == futures[i]
         IN /\ f.exc.type \in {"None", "RuntimeError"}
            /\ resp.fault
                 => /\ f.exc.type = "RuntimeError"
                    /\ f.exc.msg = <<"Error extracting text from image: ">>
                                     \o resp.error_message
            /\ (~resp.fault /\ resp.error_message # <<>>)
                 => /\ f.exc.type = "RuntimeError"
                    /\ f.exc.msg = <<"Error extracting text from image: ", "API Error: ">>
                                     \o resp.error_message
            /\ (~resp.fault /\ resp.error_message = <<>> /\ resp.text_annotations = <<>>)
                 => (f.exc = NoExc /\ f.text = <<>>)
            /\ (~resp.fault /\ resp.error_message = <<>> /\ resp.text_annotations # <<>>)
                 => (f.exc = NoExc /\ f.text = resp.text_annotations[1])

C10_Witness ==
  /\ Len(futures) = 3
  /\ \A i \in 1..3 : futures[i].state = "done" /\ futures[i].frame.encodable
  /\ \E i \in 1..3 : ~futures[i].frame.response.fault /\ futures[i].exc.type = "RuntimeError"
  /\ \E i \in 1..3 : futures[i].exc = NoExc /\ futures[i].text = <<>>
  /\ \E i \in 1..3 : futures[i].exc = NoExc /\ futures[i].text = TextAB


\* C11: the code matcher, applied by process_frame to a recognized text,
\* yields no match on AB12-CD34-EF5 and on ab12-cd34-ef56, yields
\* WXYZ-1234-5678 on itself, and on a text without a match yields the empty
\* sequence and no error.
C11_NearMatchesRejected ==
  \A i \in 1..Len(futures) :
    futures[i].state = "done"
      => /\ futures[i].exc = NoExc
         /\ futures[i].text = ShortText => futures[i].result = <<>>
         /\ futures[i].text = LowerText => futures[i].result = <<>>
         /\ futures[i].text = CodeB => futures[i].result = <<CodeB>>
         /\ futures[i].text \in {PlainText, <<>>} => futures[i].result = <<>>

C11_Witness ==
  /\ Len(futures) = 3
  /\ futures[1].state = "done" /\ futures[1].text = ShortText
  /\ futures[2].state = "done" /\ futures[2].text = LowerText
  /\ futures[3].state = "done" /\ futures[3].text = CodeB
  /\ futures[1].result = <<>> /\ futures[2].result = <<>>
  /\ futures[3].result = <<CodeB>>

Alnum == Upper \cup Lower \cup Digit

\* c stands at position p of text with no alphanumeric character right
\* before it or right after it
WholeTokenAt(text, p, c) ==
  /\ p + Len(c) - 1 <= Len(text)
  /\ SubSeq(text, p, p + Len(c) - 1) = c
  /\ p > 1 => text[p - 1] \notin Alnum
  /\ p + Len(c) <= Len(text) => text[p + Len(c)] \notin Alnum

\* C12: every code the matcher returns for a text stands in that text as a
\* whole token: at some position where it is neither preceded nor followed by
\* an alphanumeric character.
C12_WholeTokens ==
  \A i \in 1..Len(futures) :
    futures[i].state = "done"
      => \A k \in 1..Len(futures[i].result) :
           \E p \in 1..Len(futures[i].text) :
             WholeTokenAt(futures[i].text, p, futures[i].result[k])

\* a code inside a longer run is passed over and a whole one is returned; a
\* run with a leading and one with a trailing character yield nothing
C12_Witness ==
  /\ Len(futures) = 3
  /\ \A i \in 1..3 : futures[i].state = "done"
  /\ futures[1].text = MixedText /\ futures[1].result = <<CodeB>>
  /\ futures[2].text = PrefixedText /\ futures[2].result = <<>>
  /\ futures[3].text = SuffixedText /\ futures[3].result = <<>>


\* C13: on the 30 fps, 5-second video with the code visible at the ordinals 0
\* and 150, extract_codes returns exactly the set holding ABCD-1234-EFGH.
C13_EndToEnd == pc = "done" => outcome = Returned({CodeA})

\* both frames that show the code were sampled and recognized, the four other
\* sampled frames yielded nothing
C13_Witness ==
  /\ pc = "done"
  /\ outcome.value = {CodeA}
  /\ Len(futures) = 6
  /\ futures[1].ordinal = 0 /\ futures[1].result = <<CodeA>>
  /\ futures[6].ordinal = ScenarioLength /\ futures[6].result = <<CodeA>>
  /\ \A i \in 2..5 : futures[i].exc = NoExc /\ futures[i].result = <<>>


\* the coordinator's state of the design: Idle before the call, Sampling from
\* the opening of the source to the end of the read loop (an exception that
\* leaves the loop included), Merging while outcomes are collected, then Done
\* (a set is returned) or Failed (an exception is raised)
Phase ==
  IF pc = "idle" THEN "Idle"
  ELSE IF pc \in {"open", "fps", "loop", "unwind"} THEN "Sampling"
  ELSE IF pc \in {"collect", "release"} THEN "Merging"
  ELSE IF outcome.status = "returned" THEN "Done"
  ELSE "Failed"

PhaseSteps ==
  {<<"Idle", "Sampling">>, <<"Sampling", "Merging">>, <<"Merging", "Done">>,
   <<"Sampling", "Failed">>}

\* C14: the coordinator moves Idle -> Sampling -> Merging -> Done, or from
\* Sampling to Failed; nothing is merged before the read loop has seen the end
\* of the stream; the futures are collected one by one, each when it has
\* completed, and at Done all of them have completed and been collected; at
\* Failed no unit of work was dispatched and no set is returned.
C14_StateMachine ==
  /\ [](/\ Phase \in {"Idle", "Sampling"}
             => (next = 1 /\ updating = {} /\ codes = {})
        /\ Phase = "Merging"
             => (cap_pos = video.total_frames /\ Len(reads) = video.total_frames + 1)
        /\ Phase = "Done"
             => (AllDone /\ next = Len(futures) + 1 /\ updating = {}
                   /\ outcome.value = codes)
        /\ Phase = "Failed"
             => (futures = <<>> /\ outcome.status = "raised" /\ outcome.value = {}))
  /\ [][/\ Phase' # Phase => <<Phase, Phase'>> \in PhaseSteps
        /\ next' # next
             => (next' = next + 1 /\ next <= Len(futures)
                   /\ futures[next].state = "done")]_vars

C14_Witness ==
  /\ Phase = "Done"
  /\ mode = "direct"
  /\ Len(futures) = 2
  /\ next = 3
  /\ futures[1].exc # NoExc
  /\ futures[2].result = <<CodeB>>
  /\ Len(reads) = 3


WorkSteps == {<<"pending", "running">>, <<"running", "done">>}

\* C15: the units of work are in one-to-one correspondence with the sampled
\* frames read so far (the ordinals below frame_count that frame_interval
\* divides): no sampled frame lacks a unit, no frame has two, no other frame
\* has one.  A unit keeps the frame it was given and enters process_frame at
\* most once, and when extract_codes returns every unit has run.
C15_OneUnitPerSampledFrame ==
  /\ [](/\ Cardinality(Ordinals) = Len(futures)
        /\ (pc \in {"loop", "collect", "release"} /\ frame_interval # 0)
             => Ordinals = {i \in 0..(frame_count - 1) : PyMod(i, frame_interval) = 0}
        /\ (pc = "done" /\ outcome.status = "returned")
             => (frame_count = video.total_frames
                   /\ \A i \in 1..Len(futures) : futures[i].state = "done"))
  /\ [][/\ Len(futures') >= Len(futures)
        /\ \A i \in 1..Len(futures) :
             /\ futures'[i].ordinal = futures[i].ordinal
             /\ futures'[i].frame = futures[i].frame
             /\ futures'[i].state # futures[i].state
                  => <<futures[i].state, futures'[i].state>> \in WorkSteps]_vars

\* every second frame is sampled: the frames 0 and 2 have run, frame 1 has no unit
C15_Witness ==
  /\ pc = "done"
  /\ frame_interval = 2
  /\ frame_count = 3
  /\ Len(futures) = 2
  /\ futures[1].ordinal = 0 /\ futures[1].state = "done"
  /\ futures[2].ordinal = 2 /\ futures[2].state = "done"


Called == pc \in {"open", "fps", "loop", "collect", "unwind", "release"}

\* C16: when every possible step is eventually taken (workers run, every
\* recognition call returns), a call of extract_codes ends: it returns a set
\* or raises.  The end of the stream raises nothing: the collection is entered
\* with no exception under way.  And the call never ends while a unit of work
\* has not completed, so a recognition call that never returns keeps it from
\* returning.
C16_Terminates ==
  /\ Called ~> (pc = "done" /\ outcome.status \in {"returned", "raised"})
  /\ [](pc \in {"collect", "release"}
          => (pending_exc = NoExc /\ outcome.status = "none"))
  /\ []((\E i \in 1..Len(futures) : futures[i].state # "done") => pc # "done")

\* a call on a stream of three sampled frames has returned
C16_Witness ==
  /\ pc = "done"
  /\ outcome.status = "returned"
  /\ video.total_frames = 3
  /\ Len(futures) = 3
  /\ Len(reads) = 4
  /\ releases = 1


\* the messages that end a run of main
InvalidUrlMessage == <<"Error: Invalid YouTube URL">>
NoCodesMessage == <<"No valid codes found in the video">>
FoundMessage == <<"Found potential voucher codes:">>
IsErrorMessage(m) == m = InvalidUrlMessage \/ m[1] = "Error: "
IsTerminal(m) == IsErrorMessage(m) \/ m = NoCodesMessage \/ m = FoundMessage
Terminals == {k \in 1..Len(printed) : IsTerminal(printed[k])}
CodeLines == {k \in 1..Len(printed) : printed[k][1] = "code: "}

\* C17: a finished run of main has printed exactly one terminal message.  An
\* invalid URL gives the invalid-URL message and neither download nor
\* extraction; an exception of the download or of the extraction gives one
\* error message with its text and no codes or no-codes report; an empty
\* result gives the no-codes message; a non-empty result gives the header and
\* one line for each code.  Every exception that reaches main is one its
\* except clause catches.
C17_OneTerminalOutcome ==
  /\ caught # NoExc => caught.type \in ExceptionClasses
  /\ (pc = "done" /\ outcome.status = "raised") => outcome.exc.type \in ExceptionClasses
  /\ mpc = "exit"
       => /\ Cardinality(Terminals) = 1
          /\ ~url_valid
               => /\ printed = <<InvalidUrlMessage>>
                  /\ pc = "idle"
                  /\ fs = {}
                  /\ video_path = Unset
          /\ (url_valid /\ ~dl_ok)
               => /\ printed[Len(printed)] =
                       <<"Error: ", "Video download failed: ", "unable to download">>
                  /\ pc = "idle"
                  /\ CodeLines = {}
          /\ (url_valid /\ dl_ok /\ outcome.status = "raised")
               => /\ printed[Len(printed)] = <<"Error: ">> \o outcome.exc.msg
                  /\ CodeLines = {}
          /\ (url_valid /\ dl_ok /\ outcome.status = "returned" /\ outcome.value = {})
               => /\ printed[Len(printed)] = NoCodesMessage
                  /\ CodeLines = {}
          /\ (url_valid /\ dl_ok /\ outcome.status = "returned" /\ outcome.value # {})
               => /\ \E k \in Terminals : printed[k] = FoundMessage
                  /\ Cardinality(CodeLines) = Cardinality(outcome.value)
                  /\ {printed[k] : k \in CodeLines}
                       = {<<"code: ">> \o c : c \in outcome.value}

\* a run whose download succeeded and whose extraction raised
C17_Witness ==
  /\ mpc = "exit"
  /\ url_valid
  /\ dl_ok
  /\ outcome.status = "raised"
  /\ printed = << <<"Downloading video...">>,
                  <<"Analyzing video frames using Cloud OCR...">>,
                  <<"Error: ", "Unable to open video file">> >>

\* C18: for every frame rate above zero that passes the check of
\* extract_codes, the sampling interval is at least 1 and the loop does not
\* fail with a division by zero.
C18_IntervalAtLeastOne ==
  /\ (pc = "loop" /\ ~video.fps.nan /\ video.fps.num > 0) => frame_interval >= 1
  /\ pending_exc.type # "ZeroDivisionError"

\* C19: when extract_codes has left the with block of the pool, normally or
\* by an exception, none of the units of work it submitted is pending or
\* running.
C19_NoWorkLeftBehind ==
  (pc \in {"release", "done"})
    => \A i \in 1..Len(futures) : futures[i].state = "done"

\* the with block was left after three units of work ran
C19_Witness ==
  /\ pc = "release"
  /\ Len(futures) = 3
  /\ next = 4
  /\ \E i \in 1..3 : futures[i].exc # NoExc

\* C20: when main has finished and download_video had returned a path, no
\* file exists at that path; when the URL is invalid or the download raised,
\* main calls no file removal, and with an invalid URL it does not even reach
\* the finally clause.
C20_NoFileLeft ==
  /\ mpc = "finally" => url_valid
  /\ mpc = "exit"
       => /\ video_path # Unset => video_path \notin fs
          /\ (~url_valid \/ ~dl_ok) => (removed = 0 /\ video_path = Unset)

\* a run that downloaded the video has finished
C20_Witness ==
  /\ mpc = "exit"
  /\ video_path = DownloadedFile
  /\ DownloadedFile \notin fs
  /\ TmpDir \notin fs

====
